---- MODULE Spec2Model ----
(***************************************************************************)
(* Bongo Cat Monitor: the application shell (bongo_cat_app/main.py) and    *)
(* the scheduled-task handle (bongo_cat_app/task.py).                      *)
(*                                                                         *)
(* Spec / FairSpec : one process running main.py: the __main__ block,      *)
(*   main(), BongoCatApplication.__init__/initialize_components/run/       *)
(*   shutdown/signal_handler, with the main thread, the tray thread, and   *)
(*   signal handlers that nest on the main thread's call stack.            *)
(* TaskSpec : one Task object of task.py: __init__, exists, set_enabled.   *)
(*                                                                         *)
(* config.py, engine.py and tray.py are not part of the sources; what the  *)
(* shell needs of them (the engine loop blocks until stopped, the tray     *)
(* runs its exit callback on its own thread, the settings window sets the  *)
(* application's tk_root) follows their documented contract.  Every call   *)
(* into them may return or raise.  print() and time.sleep() do not raise,  *)
(* and os._exit() does not return, so the `except` of lines 155-158 is not *)
(* reachable and has no action.                                            *)
(***************************************************************************)
EXTENDS Integers, Sequences, FiniteSets, TLC

VARIABLES
    \* ---- the process (main.py) ----
    launch,             \* [admin, version]: pyuac.isUserAdmin(), "--version" in argv
    stack,              \* call stack of each thread: Seq of [pc, caller, tried]
    exited,             \* the process has terminated
    exitCode,           \* its exit status (meaningful once exited)
    exitVia,            \* which call ended it
    versionPrinted,     \* argparse printed the version string
    relaunchRequested,  \* pyuac.runAsAdmin was called
    argsParsed,         \* parser.parse_args() was called
    handlersInstalled,  \* signal.signal(SIGINT/SIGTERM, self.signal_handler)
    \* ---- BongoCatApplication fields ----
    app,                \* "None" before BongoCatApplication(), "obj" after
    config, engine, tray, tk_root,   \* "None" or "obj"
    running,            \* self.running
    wired,              \* wiring done: subset of {"engine_tray", "config_tray"}
    ret,                \* the value run() is about to return
    \* ---- collaborators ----
    monitoring,         \* the engine loop is (to keep) running
    trayState,          \* "idle", "running", "stopped"
    \* ---- history ----
    initFailed,         \* initialize_components() returned False
    caught,             \* what run()'s try caught: "none", "interrupt", "exception"
    sigCount,           \* signals handled so far
    trayStarted,        \* tray.start_detached() returned
    engineStartedBy,    \* thread that called engine.start_monitoring(), or "none"
    raised,             \* per thread, the shutdown steps whose call raised on it
    accessedBy,         \* per shared item, the threads that wrote or drove it
    \* ---- task.py ----
    task,               \* NoTask or the Task object's attributes
    construction,       \* outcome of the Task(...) call: "none", "ok" or the exception
    queryRc,            \* exit status of the query Task(...) made, -1 before it
    calls               \* log of set_enabled calls: Seq of [enabled, rc, issued, result]

exitVars  == <<exited, exitCode, exitVia>>
procVars  == <<launch, exitVars, versionPrinted, relaunchRequested, argsParsed,
               handlersInstalled>>
fieldVars == <<app, config, engine, tray, tk_root, running, wired, ret>>
collVars  == <<monitoring, trayState>>
histVars  == <<initFailed, caught, sigCount, trayStarted, engineStartedBy, accessedBy>>
taskVars  == <<task, construction, queryRc, calls>>
appVars   == <<procVars, stack, fieldVars, collVars, histVars, raised>>
vars      == <<appVars, taskVars>>

\* Bounds of the model.
MaxSignals == 1
MaxCalls == 2

Threads == {"main", "tray"}
Steps == {"engine", "tray", "tk"}
SharedItems == {"running", "engine.stop_monitoring"}
ShutdownPcs == {"sd_begin", "sd_engine", "sd_tray", "sd_tk", "sd_exit"}

\* A frame: where it is, who called it, and for a shutdown() frame the steps
\* it has tried.
Frame(pc, caller) == [pc |-> pc, caller |-> caller, tried |-> {}]

Depth(t) == Len(stack[t])
Top(t) == stack[t][Depth(t)]
At(t, pc) == ~exited /\ Depth(t) > 0 /\ Top(t).pc = pc
InShutdown(t) == Depth(t) > 0 /\ Top(t).pc \in ShutdownPcs

SetTop(t, f) == [stack EXCEPT ![t] = [@ EXCEPT ![Len(@)] = f]]
Goto(t, pc) == stack' = SetTop(t, [Top(t) EXCEPT !.pc = pc])
\* self.shutdown() called on thread t: a new frame above the caller's.
CallShutdown(t, caller) ==
    stack' = [stack EXCEPT ![t] = Append(@, Frame("sd_begin", caller))]

Exit(code, via) ==
    /\ exited' = TRUE
    /\ exitCode' = code
    /\ exitVia' = via

\* No Task object: the attributes of an object that was never constructed.
NoTask == [constructed |-> FALSE, name |-> "", task_exists |-> FALSE,
           folder |-> [none |-> TRUE, text |-> <<>>], debug |-> FALSE]

AppInit ==
    /\ stack = [t \in Threads |-> IF t = "main" THEN <<Frame("start", "os")>> ELSE <<>>]
    /\ exited = FALSE
    /\ exitCode = 0
    /\ exitVia = "none"
    /\ versionPrinted = FALSE
    /\ relaunchRequested = FALSE
    /\ argsParsed = FALSE
    /\ handlersInstalled = FALSE
    /\ app = "None"
    /\ config = "None"
    /\ engine = "None"
    /\ tray = "None"
    /\ tk_root = "None"
    /\ running = FALSE
    /\ wired = {}
    /\ ret = 0
    /\ monitoring = FALSE
    /\ trayState = "idle"
    /\ initFailed = FALSE
    /\ caught = "none"
    /\ sigCount = 0
    /\ trayStarted = FALSE
    /\ engineStartedBy = "none"
    /\ raised = [t \in Threads |-> {}]
    /\ accessedBy = [i \in SharedItems |-> {}]

TaskIdle ==
    /\ task = NoTask
    /\ construction = "none"
    /\ queryRc = -1
    /\ calls = <<>>

Init ==
    /\ launch \in [admin : BOOLEAN, version : BOOLEAN]
    /\ AppInit
    /\ TaskIdle

(***************************************************************************)
(* main.py: the __main__ block and main()                                  *)
(***************************************************************************)

\* if not pyuac.isUserAdmin(): ... else: sys.exit(main())
AdminCheck ==
    /\ At("main", "start")
    /\ Goto("main", IF launch.admin THEN "main_parse" ELSE "relaunch")
    /\ UNCHANGED <<procVars, fieldVars, collVars, histVars, raised, taskVars>>

\* A missing `else`: main() runs after the relaunch request returned.
RelaunchFallsThrough ==
    /\ At("main", "relaunch")
    /\ relaunchRequested' = TRUE
    /\ Goto("main", "main_parse")
    /\ UNCHANGED <<launch, exitVars, versionPrinted, argsParsed, handlersInstalled,
                   fieldVars, collVars, histVars, raised, taskVars>>

\* print("Re-launching as admin!"); pyuac.runAsAdmin(wait=False); the script ends.
\* runAsAdmin returns (the script falls off its end, status 0) or raises (an
\* uncaught exception, status 1).
Relaunch ==
    /\ At("main", "relaunch")
    /\ relaunchRequested' = TRUE
    /\ \E returns \in BOOLEAN :
          IF returns THEN Exit(0, "end_of_script") ELSE Exit(1, "uncaught")
    /\ UNCHANGED <<launch, versionPrinted, argsParsed, handlersInstalled, stack,
                   fieldVars, collVars, histVars, raised, taskVars>>

\* --version handled as a plain flag: nothing is printed and main() goes on.
ParseArgsIgnoresVersion ==
    /\ At("main", "main_parse")
    /\ argsParsed' = TRUE
    /\ Goto("main", "construct_app")
    /\ UNCHANGED <<launch, exitVars, versionPrinted, relaunchRequested,
                   handlersInstalled, fieldVars, collVars, histVars, raised,
                   taskVars>>

\* parser.parse_args(): the "version" action prints the version and raises
\* SystemExit(0); otherwise main() goes on to BongoCatApplication().
ParseArgs ==
    /\ At("main", "main_parse")
    /\ argsParsed' = TRUE
    /\ IF launch.version
         THEN /\ versionPrinted' = TRUE
              /\ Exit(0, "sys.exit")
              /\ UNCHANGED stack
         ELSE /\ Goto("main", "construct_app")
              /\ UNCHANGED <<exitVars, versionPrinted>>
    /\ UNCHANGED <<launch, relaunchRequested, handlersInstalled,
                   fieldVars, collVars, histVars, raised, taskVars>>

(***************************************************************************)
(* BongoCatApplication.__init__, initialize_components, run                *)
(***************************************************************************)

\* app = BongoCatApplication(): the fields are None/False, the two signal
\* handlers are installed; then app.run() starts initialize_components().
ConstructApp ==
    /\ At("main", "construct_app")
    /\ app' = "obj"
    /\ config' = "None"
    /\ engine' = "None"
    /\ tray' = "None"
    /\ tk_root' = "None"
    /\ running' = FALSE
    /\ handlersInstalled' = TRUE
    /\ Goto("main", "init_config")
    /\ UNCHANGED <<launch, exitVars, versionPrinted, relaunchRequested, argsParsed,
                   wired, ret, collVars, histVars, raised, taskVars>>

\* run() going on to start the tray although initialize_components() failed.
InitializationErrorIgnored ==
    /\ initFailed' = TRUE
    /\ Goto("main", "set_running")
    /\ UNCHANGED ret

\* except Exception: return False; run(): if not initialize_components(): return 1
InitializationError ==
    /\ initFailed' = TRUE
    /\ ret' = 1
    /\ Goto("main", "run_return")

\* self.config = ConfigManager()
InitConfig ==
    /\ At("main", "init_config")
    /\ \E ok \in BOOLEAN :
          IF ok THEN /\ config' = "obj"
                     /\ Goto("main", "init_engine")
                     /\ UNCHANGED <<ret, initFailed>>
                ELSE /\ InitializationError
                     /\ UNCHANGED config
    /\ UNCHANGED <<procVars, app, engine, tray, tk_root, running, wired, collVars,
                   caught, sigCount, trayStarted, engineStartedBy, accessedBy,
                   raised, taskVars>>

\* self.engine = BongoCatEngine(config_manager=self.config)
InitEngine ==
    /\ At("main", "init_engine")
    /\ \E ok \in BOOLEAN :
          IF ok THEN /\ engine' = "obj"
                     /\ Goto("main", "init_tray")
                     /\ UNCHANGED <<ret, initFailed>>
                ELSE /\ InitializationError
                     /\ UNCHANGED engine
    /\ UNCHANGED <<procVars, app, config, tray, tk_root, running, wired, collVars,
                   caught, sigCount, trayStarted, engineStartedBy, accessedBy,
                   raised, taskVars>>

\* self.tray = BongoCatSystemTray(..., on_exit_callback=self.shutdown, app_instance=self)
InitTray ==
    /\ At("main", "init_tray")
    /\ \E ok \in BOOLEAN :
          IF ok THEN /\ tray' = "obj"
                     /\ Goto("main", "wire_engine")
                     /\ UNCHANGED <<ret, initFailed>>
                ELSE /\ InitializationError
                     /\ UNCHANGED tray
    /\ UNCHANGED <<procVars, app, config, engine, tk_root, running, wired, collVars,
                   caught, sigCount, trayStarted, engineStartedBy, accessedBy,
                   raised, taskVars>>

\* self.engine.set_tray_reference(self.tray)
WireEngine ==
    /\ At("main", "wire_engine")
    /\ \E ok \in BOOLEAN :
          IF ok THEN /\ wired' = wired \cup {"engine_tray"}
                     /\ Goto("main", "wire_config")
                     /\ UNCHANGED <<ret, initFailed>>
                ELSE /\ InitializationError
                     /\ UNCHANGED wired
    /\ UNCHANGED <<procVars, app, config, engine, tray, tk_root, running, collVars,
                   caught, sigCount, trayStarted, engineStartedBy, accessedBy,
                   raised, taskVars>>

\* self.config.add_change_callback(self.tray.on_config_change); return True
WireConfig ==
    /\ At("main", "wire_config")
    /\ \E ok \in BOOLEAN :
          IF ok THEN /\ wired' = wired \cup {"config_tray"}
                     /\ Goto("main", "set_running")
                     /\ UNCHANGED <<ret, initFailed>>
                ELSE /\ InitializationError
                     /\ UNCHANGED wired
    /\ UNCHANGED <<procVars, app, config, engine, tray, tk_root, running, collVars,
                   caught, sigCount, trayStarted, engineStartedBy, accessedBy,
                   raised, taskVars>>

\* self.running = True
SetRunning ==
    /\ At("main", "set_running")
    /\ running' = TRUE
    /\ accessedBy' = [accessedBy EXCEPT !["running"] = @ \cup {"main"}]
    /\ Goto("main", "start_tray")
    /\ UNCHANGED <<procVars, app, config, engine, tray, tk_root, wired, ret, collVars,
                   initFailed, caught, sigCount, trayStarted, engineStartedBy,
                   raised, taskVars>>

\* What run()'s try statement does with an exception raised inside it:
\* except KeyboardInterrupt: print; except Exception: print, return 1; then
\* the finally clause in both cases.
Catch(kind) ==
    /\ caught' = kind
    /\ ret' = IF kind = "exception" THEN 1 ELSE 0
    /\ Goto("main", "finally")

\* self.tray.start_detached(): the tray's loop starts on its own thread.
StartTray ==
    /\ At("main", "start_tray")
    /\ \E outcome \in {"return", "exception", "interrupt"} :
          IF outcome = "return"
            THEN /\ trayState' = "running"
                 /\ trayStarted' = TRUE
                 /\ stack' = [SetTop("main", [Top("main") EXCEPT !.pc = "start_engine"])
                                EXCEPT !["tray"] = <<Frame("tray_loop", "thread")>>]
                 /\ UNCHANGED <<ret, caught>>
            ELSE /\ Catch(outcome)
                 /\ UNCHANGED <<trayState, trayStarted>>
    /\ UNCHANGED <<procVars, app, config, engine, tray, tk_root, running, wired,
                   monitoring, initFailed, sigCount, engineStartedBy,
                   accessedBy, raised, taskVars>>

\* self.engine.start_monitoring() is entered on the main thread and blocks.
StartMonitoring ==
    /\ At("main", "start_engine")
    /\ monitoring' = TRUE
    /\ engineStartedBy' = "main"
    /\ Goto("main", "monitoring")
    /\ UNCHANGED <<procVars, fieldVars, trayState, initFailed, caught, sigCount,
                   trayStarted, accessedBy, raised, taskVars>>

\* start_monitoring() returns once the loop has been told to stop: the try
\* block ends normally and the finally clause follows, with return 0 pending.
MonitoringReturns ==
    /\ At("main", "monitoring")
    /\ ~monitoring
    /\ ret' = 0
    /\ Goto("main", "finally")
    /\ UNCHANGED <<procVars, app, config, engine, tray, tk_root, running, wired,
                   collVars, histVars, raised, taskVars>>

\* start_monitoring() raises.
MonitoringRaises ==
    /\ At("main", "monitoring")
    /\ \E kind \in {"exception", "interrupt"} : Catch(kind)
    /\ UNCHANGED <<procVars, app, config, engine, tray, tk_root, running, wired,
                   collVars, initFailed, sigCount, trayStarted, engineStartedBy,
                   accessedBy, raised, taskVars>>

\* finally: self.shutdown()
Finally ==
    /\ At("main", "finally")
    /\ stack' = [stack EXCEPT !["main"] =
                    Append(SetTop("main", [Top("main") EXCEPT !.pc = "in_finally"])["main"],
                           Frame("sd_begin", "finally"))]
    /\ UNCHANGED <<procVars, fieldVars, collVars, histVars, raised, taskVars>>

\* run() returns `ret`, main() returns it, sys.exit(main()) ends the process.
SysExit ==
    /\ At("main", "run_return")
    /\ Exit(ret, "sys.exit")
    /\ UNCHANGED <<launch, versionPrinted, relaunchRequested, argsParsed,
                   handlersInstalled, stack, fieldVars, collVars, histVars, raised,
                   taskVars>>

(***************************************************************************)
(* signal_handler, the tray's callbacks, shutdown                          *)
(***************************************************************************)

\* SIGINT or SIGTERM: signal_handler runs on the main thread, above whatever
\* the main thread was doing, and calls self.shutdown().
signal_handler ==
    /\ ~exited
    /\ handlersInstalled
    /\ sigCount < MaxSignals
    /\ sigCount' = sigCount + 1
    /\ CallShutdown("main", "signal")
    /\ UNCHANGED <<procVars, fieldVars, collVars, initFailed, caught, trayStarted,
                   engineStartedBy, accessedBy, raised, taskVars>>

\* The tray menu's Exit entry: on_exit_callback (= app.shutdown) runs on the
\* tray's thread.
TrayExit ==
    /\ At("tray", "tray_loop")
    /\ trayState = "running"
    /\ CallShutdown("tray", "tray_exit")
    /\ UNCHANGED <<procVars, fieldVars, collVars, histVars, raised, taskVars>>

\* The tray menu's Settings entry: the settings window's Tk root is kept in
\* app_instance.tk_root.
TrayOpenSettings ==
    /\ At("tray", "tray_loop")
    /\ trayState = "running"
    /\ tk_root = "None"
    /\ tk_root' = "obj"
    /\ UNCHANGED <<procVars, stack, app, config, engine, tray, running, wired, ret,
                   collVars, histVars, raised, taskVars>>

\* One guarded shutdown step of the frame on top of thread t: the call is
\* made, returns (ok) or raises, and the frame goes on to `next` either way.
Attempt(t, step, ok, next) ==
    /\ stack' = SetTop(t, [Top(t) EXCEPT !.pc = next, !.tried = @ \cup {step}])
    /\ raised' = IF ok THEN raised ELSE [raised EXCEPT ![t] = @ \cup {step}]

\* print(...); self.running = False
ShutdownBegin(t) ==
    /\ At(t, "sd_begin")
    /\ running' = FALSE
    /\ accessedBy' = [accessedBy EXCEPT !["running"] = @ \cup {t}]
    /\ Goto(t, "sd_engine")
    /\ UNCHANGED <<procVars, app, config, engine, tray, tk_root, wired, ret, collVars,
                   initFailed, caught, sigCount, trayStarted, engineStartedBy,
                   raised, taskVars>>

\* One try block around the three steps: a raising engine stop skips the rest.
StopEngineSharedTry(t) ==
    /\ At(t, "sd_engine")
    /\ IF engine # "None"
         THEN /\ accessedBy' = [accessedBy EXCEPT !["engine.stop_monitoring"] = @ \cup {t}]
              /\ \E ok \in BOOLEAN :
                    /\ Attempt(t, "engine", ok, IF ok THEN "sd_tray" ELSE "sd_exit")
                    /\ monitoring' = IF ok THEN FALSE ELSE monitoring
         ELSE /\ Goto(t, "sd_tray")
              /\ UNCHANGED <<monitoring, accessedBy, raised>>
    /\ UNCHANGED <<procVars, fieldVars, trayState, initFailed, caught, sigCount,
                   trayStarted, engineStartedBy, taskVars>>

\* if self.engine: try: self.engine.stop_monitoring() except Exception: print
StopEngine(t) ==
    /\ At(t, "sd_engine")
    /\ IF engine # "None"
         THEN /\ accessedBy' = [accessedBy EXCEPT !["engine.stop_monitoring"] = @ \cup {t}]
              /\ \E ok \in BOOLEAN :
                    /\ Attempt(t, "engine", ok, "sd_tray")
                    /\ monitoring' = IF ok THEN FALSE ELSE monitoring
         ELSE /\ Goto(t, "sd_tray")
              /\ UNCHANGED <<monitoring, accessedBy, raised>>
    /\ UNCHANGED <<procVars, fieldVars, trayState, initFailed, caught, sigCount,
                   trayStarted, engineStartedBy, taskVars>>

\* The `if self.tray:` guard left out: stop is attempted on a tray that is
\* None (and raises AttributeError there).
StopTrayUnguarded(t) ==
    /\ At(t, "sd_tray")
    /\ \E ok \in BOOLEAN :
          /\ Attempt(t, "tray", ok /\ tray # "None", "sd_tk")
          /\ trayState' = IF ok /\ tray # "None" THEN "stopped" ELSE trayState
    /\ UNCHANGED <<procVars, fieldVars, monitoring, histVars, taskVars>>

\* if self.tray: try: self.tray.stop() except Exception: print
StopTray(t) ==
    /\ At(t, "sd_tray")
    /\ IF tray # "None"
         THEN \E ok \in BOOLEAN :
                 /\ Attempt(t, "tray", ok, "sd_tk")
                 /\ trayState' = IF ok THEN "stopped" ELSE trayState
         ELSE /\ Goto(t, "sd_tk")
              /\ UNCHANGED <<trayState, raised>>
    /\ UNCHANGED <<procVars, fieldVars, monitoring, histVars, taskVars>>

\* if hasattr(self, 'tk_root') and self.tk_root:
\*     try: self.tk_root.quit(); self.tk_root.destroy() except Exception: print
CleanupTk(t) ==
    /\ At(t, "sd_tk")
    /\ IF tk_root # "None"
         THEN \E ok \in BOOLEAN : Attempt(t, "tk", ok, "sd_exit")
         ELSE Goto(t, "sd_exit") /\ UNCHANGED raised
    /\ UNCHANGED <<procVars, fieldVars, collVars, histVars, taskVars>>

\* shutdown() ending with a plain return: the frame is popped and its caller
\* goes on (run() returns `ret` after its finally clause).
ForceExitReturns(t) ==
    /\ At(t, "sd_exit")
    /\ LET below == SubSeq(stack[t], 1, Depth(t) - 1)
       IN  stack' = [stack EXCEPT ![t] =
                        IF Top(t).caller = "finally"
                          THEN [below EXCEPT ![Len(below)].pc = "run_return"]
                          ELSE below]
    /\ UNCHANGED <<procVars, fieldVars, collVars, histVars, raised, taskVars>>

\* print("Goodbye!"); time.sleep(0.5); os._exit(0)
ForceExit(t) ==
    /\ At(t, "sd_exit")
    /\ Exit(0, "os._exit")
    /\ UNCHANGED <<launch, versionPrinted, relaunchRequested, argsParsed,
                   handlersInstalled, stack, fieldVars, collVars, histVars, raised,
                   taskVars>>

shutdown(t) ==
    \/ ShutdownBegin(t)
    \/ StopEngine(t)
    \/ StopTray(t)
    \/ CleanupTk(t)
    \/ ForceExit(t)

Next ==
    \/ AdminCheck
    \/ Relaunch
    \/ ParseArgs
    \/ ConstructApp
    \/ InitConfig
    \/ InitEngine
    \/ InitTray
    \/ WireEngine
    \/ WireConfig
    \/ SetRunning
    \/ StartTray
    \/ StartMonitoring
    \/ MonitoringReturns
    \/ MonitoringRaises
    \/ Finally
    \/ SysExit
    \/ signal_handler
    \/ TrayExit
    \/ TrayOpenSettings
    \/ \E t \in Threads : ShutdownBegin(t)
    \/ \E t \in Threads : StopEngine(t)
    \/ \E t \in Threads : StopTray(t)
    \/ \E t \in Threads : CleanupTk(t)
    \/ \E t \in Threads : ForceExit(t)

Spec == Init /\ [][Next]_vars

\* Both threads are scheduled, and the stop calls return or raise: a thread
\* inside shutdown() keeps taking its steps.  Signals, menu clicks and the
\* outcome of the engine loop are not forced.
FairSpec == Spec /\ \A t \in Threads : WF_vars(shutdown(t))

(***************************************************************************)
(* task.py.  Output of the OS command is a sequence of bytes (0..255);     *)
(* text is a sequence of code points.                                      *)
(***************************************************************************)

TaskNames == {"BongoCat", "Other"}

IsCont(b) == b >= 128 /\ b <= 191

\* bytes.decode('utf-8'): the code points, or a failure (UnicodeDecodeError).
\* Strict UTF-8: no stray or missing continuation bytes, no overlong forms,
\* no surrogates, nothing above U+10FFFF.
RECURSIVE Utf8Decode(_)
Utf8Decode(bytes) ==
    IF bytes = <<>> THEN [ok |-> TRUE, text |-> <<>>]
    ELSE
      LET b1 == bytes[1]
          n  == Len(bytes)
          width == IF b1 < 128 THEN 1
                   ELSE IF b1 >= 194 /\ b1 <= 223 THEN 2
                   ELSE IF b1 >= 224 /\ b1 <= 239 THEN 3
                   ELSE IF b1 >= 240 /\ b1 <= 244 THEN 4
                   ELSE 0
          wellFormed ==
              /\ width > 0
              /\ n >= width
              /\ \A i \in 2..width : IsCont(bytes[i])
              /\ (b1 = 224 => bytes[2] >= 160)
              /\ (b1 = 237 => bytes[2] <= 159)
              /\ (b1 = 240 => bytes[2] >= 144)
              /\ (b1 = 244 => bytes[2] <= 143)
          point == IF width = 1 THEN b1
                   ELSE IF width = 2 THEN (b1 - 192) * 64 + (bytes[2] - 128)
                   ELSE IF width = 3
                     THEN (b1 - 224) * 4096 + (bytes[2] - 128) * 64 + (bytes[3] - 128)
                   ELSE (b1 - 240) * 262144 + (bytes[2] - 128) * 4096
                        + (bytes[3] - 128) * 64 + (bytes[4] - 128)
      IN  IF ~wellFormed THEN [ok |-> FALSE, text |-> <<>>]
          ELSE LET rest == Utf8Decode(SubSeq(bytes, width + 1, n))
               IN  IF rest.ok THEN [ok |-> TRUE, text |-> <<point>> \o rest.text]
                   ELSE rest

\* str.split('\r\n'): the pieces between occurrences of CR LF.
RECURSIVE SplitCRLF(_)
SplitCRLF(text) ==
    LET n == Len(text)
        hits == {i \in 1..(n - 1) : text[i] = 13 /\ text[i + 1] = 10}
    IN  IF hits = {} THEN <<text>>
        ELSE LET i == CHOOSE j \in hits : \A k \in hits : j <= k
             IN  <<SubSeq(text, 1, i - 1)>> \o SplitCRLF(SubSeq(text, i + 2, n))

\* el.split(':', 1): one piece without a colon, else the text before the
\* first colon and the text after it.
SplitColon(el) ==
    LET hits == {i \in 1..Len(el) : el[i] = 58}
    IN  IF hits = {} THEN <<el>>
        ELSE LET i == CHOOSE j \in hits : \A k \in hits : j <= k
             IN  <<SubSeq(el, 1, i - 1), SubSeq(el, i + 1, Len(el))>>

\* str.strip(): whitespace removed at both ends (the whitespace below U+0100).
Whitespace == {9, 10, 11, 12, 13, 28, 29, 30, 31, 32, 133, 160}

Strip(text) ==
    LET keep == {i \in 1..Len(text) : text[i] \notin Whitespace}
    IN  IF keep = {} THEN <<>>
        ELSE LET lo == CHOOSE j \in keep : \A k \in keep : j <= k
                 hi == CHOOSE j \in keep : \A k \in keep : j >= k
             IN  SubSeq(text, lo, hi)

\* d[k] = v on a dict kept as its items in insertion order.
DictPut(d, k, v) ==
    IF \E i \in 1..Len(d) : d[i][1] = k
      THEN [i \in 1..Len(d) |-> IF d[i][1] = k THEN <<k, v>> ELSE d[i]]
      ELSE Append(d, <<k, v>>)

DictHas(d, k) == \E i \in 1..Len(d) : d[i][1] = k
DictGet(d, k) == d[CHOOSE i \in 1..Len(d) : d[i][1] = k][2]

\* {el.split(':', 1)[0]: el.split(':', 1)[1] for el in lines if el != ''}
RECURSIVE RawAttrs(_, _)
RawAttrs(lines, d) ==
    IF lines = <<>> THEN d
    ELSE LET el == Head(lines)
         IN  IF el = <<>> THEN RawAttrs(Tail(lines), d)
             ELSE RawAttrs(Tail(lines), DictPut(d, SplitColon(el)[1], SplitColon(el)[2]))

\* {k.strip(): v.strip() for k, v in attrs.items()}
RECURSIVE StripAttrs(_, _)
StripAttrs(items, d) ==
    IF items = <<>> THEN d
    ELSE StripAttrs(Tail(items), DictPut(d, Strip(Head(items)[1]), Strip(Head(items)[2])))

TaskPathKey == <<84, 97, 115, 107, 80, 97, 116, 104>>

\* Task.exists(): what it returns and the folder it sets, or the exception
\* that leaves it.
exists(result) ==
    IF result.returncode = 0
      THEN LET decoded == Utf8Decode(result.stdout)
               lines == SplitCRLF(decoded.text)
               attrs == StripAttrs(RawAttrs(lines, <<>>), <<>>)
           IN  IF ~decoded.ok
                 THEN [raises |-> "UnicodeDecodeError", value |-> FALSE,
                       folder |-> [none |-> TRUE, text |-> <<>>]]
               ELSE IF \E i \in 1..Len(lines) :
                          lines[i] # <<>> /\ Len(SplitColon(lines[i])) < 2
                 THEN [raises |-> "IndexError", value |-> FALSE,
                       folder |-> [none |-> TRUE, text |-> <<>>]]
               ELSE IF ~DictHas(attrs, TaskPathKey)
                 THEN [raises |-> "KeyError", value |-> FALSE,
                       folder |-> [none |-> TRUE, text |-> <<>>]]
               ELSE [raises |-> "no", value |-> TRUE,
                     folder |-> [none |-> FALSE, text |-> DictGet(attrs, TaskPathKey)]]
      ELSE [raises |-> "no", value |-> FALSE, folder |-> [none |-> TRUE, text |-> <<>>]]

\* Outputs of Get-ScheduledTaskInfo the model draws from.
StdoutSamples == {
    \* "TaskPath:\"
    <<84, 97, 115, 107, 80, 97, 116, 104, 58, 92>>,
    \* CRLF "LastRunTime : 1:2" CRLF "TaskPath : \" CRLF
    <<13, 10, 76, 97, 115, 116, 82, 117, 110, 84, 105, 109, 101, 32, 58, 32, 49, 58, 50,
      13, 10, 84, 97, 115, 107, 80, 97, 116, 104, 32, 58, 32, 92, 13, 10>>,
    \* "TaskPath:a" CRLF " TaskPath:b"
    <<84, 97, 115, 107, 80, 97, 116, 104, 58, 97, 13, 10,
      32, 84, 97, 115, 107, 80, 97, 116, 104, 58, 98>>,
    \* "TaskPath" (no colon)
    <<84, 97, 115, 107, 80, 97, 116, 104>>,
    \* "TaskName:x" (no TaskPath)
    <<84, 97, 115, 107, 78, 97, 109, 101, 58, 120>>,
    \* nothing
    <<>>,
    \* "TaskPath:" and a byte that is not UTF-8
    <<84, 97, 115, 107, 80, 97, 116, 104, 58, 252>> }

\* Error output of Enable-/Disable-ScheduledTask the model draws from:
\* nothing, "E", "é" in UTF-8, "ü" in a Windows code page, a cut-off sequence.
StderrSamples == { <<>>, <<69>>, <<195, 169>>, <<252>>, <<69, 195>> }

\* Keyword arguments of Task(name, **kwargs): any of debug and task_exists.
KwargsSamples ==
    UNION {[keys -> BOOLEAN] : keys \in SUBSET {"debug", "task_exists"}}

\* Task(name, **kwargs), the scheduler's answer to the query being `result`.
TaskConstruct ==
    /\ construction = "none"
    /\ \E name \in TaskNames, kwargs \in KwargsSamples,
          rc \in {0, 1}, out \in StdoutSamples :
          LET ex == exists([returncode |-> rc, stdout |-> out])
              has(k) == k \in DOMAIN kwargs
          IN  /\ queryRc' = rc
              /\ IF ex.raises # "no"
                   THEN /\ construction' = ex.raises
                        /\ UNCHANGED task
                 ELSE IF ~ex.value
                   THEN /\ construction' = "ValueError"
                        /\ UNCHANGED task
                 ELSE /\ construction' = "ok"
                      /\ task' = [constructed |-> TRUE,
                                  name |-> name,
                                  folder |-> ex.folder,
                                  task_exists |-> IF has("task_exists")
                                                    THEN kwargs["task_exists"]
                                                    ELSE ex.value,
                                  debug |-> IF has("debug") THEN kwargs["debug"]
                                                            ELSE FALSE]
    /\ UNCHANGED <<calls, appVars>>

\* task.set_enabled(enabled), the Enable-/Disable-ScheduledTask command
\* ending with status rc and error output err.  The message of the failure
\* branch is formatted (stderr decoded) before self.print looks at debug.
set_enabled ==
    /\ task.constructed
    /\ Len(calls) < MaxCalls
    /\ \E enabled \in BOOLEAN, rc \in {0, 1}, err \in StderrSamples :
          calls' = Append(calls,
             IF ~task.task_exists
               THEN [enabled |-> enabled, issued |-> FALSE, rc |-> 0,
                     logged |-> task.debug, result |-> "False"]
             ELSE IF rc = 0
               THEN [enabled |-> enabled, issued |-> TRUE, rc |-> rc,
                     logged |-> task.debug, result |-> "True"]
             ELSE IF ~Utf8Decode(err).ok
               THEN [enabled |-> enabled, issued |-> TRUE, rc |-> rc,
                     logged |-> task.debug, result |-> "UnicodeDecodeError"]
             ELSE [enabled |-> enabled, issued |-> TRUE, rc |-> rc,
                   logged |-> task.debug, result |-> "False"])
    /\ UNCHANGED <<task, construction, queryRc, appVars>>

TaskInit ==
    /\ launch = [admin |-> TRUE, version |-> FALSE]
    /\ AppInit
    /\ TaskIdle

TaskNext ==
    \/ TaskConstruct
    \/ set_enabled

TaskSpec == TaskInit /\ [][TaskNext]_vars

(***************************************************************************)
(* Properties                                                              *)
(***************************************************************************)

ShutdownFrames(t) == {i \in 1..Depth(t) : stack[t][i].pc \in ShutdownPcs}
Component(step) == IF step = "engine" THEN engine
                   ELSE IF step = "tray" THEN tray ELSE tk_root
NothingConstructed ==
    /\ app = "None"
    /\ config = "None"
    /\ engine = "None"
    /\ tray = "None"
    /\ ~handlersInstalled

\* C1: the exit status is 1 when run() caught a runtime exception or when
\* initialization failed (and no signal intervened), and 0 when the
\* application was shut down normally or interrupted.
C1_ExitCodeContract ==
    (exited /\ app = "obj") =>
        /\ (caught = "exception" => exitCode = 1)
        /\ (initFailed /\ sigCount = 0 => exitCode = 1)
        /\ (~initFailed /\ caught # "exception" => exitCode = 0)

\* The order of shutdown()'s steps, and what a frame does in one step.
NextPc(pc) == IF pc = "sd_begin" THEN "sd_engine"
              ELSE IF pc = "sd_engine" THEN "sd_tray"
              ELSE IF pc = "sd_tray" THEN "sd_tk"
              ELSE "sd_exit"
StepAt(pc) == IF pc = "sd_engine" THEN {"engine"}
              ELSE IF pc = "sd_tray" THEN {"tray"}
              ELSE IF pc = "sd_tk" THEN {"tk"}
              ELSE {}
StepsInOrder ==
    \A t \in Threads : \A i \in ShutdownFrames(t) :
        /\ Len(stack'[t]) >= i
        /\ stack'[t][i] # stack[t][i] =>
              /\ stack[t][i].pc # "sd_exit"
              /\ stack'[t][i].pc = NextPc(stack[t][i].pc)
              /\ stack'[t][i].tried = stack[t][i].tried \cup
                    {s \in StepAt(stack[t][i].pc) : Component(s) # "None"}
SomeStepRaised == \E t \in Threads : raised[t] # {}

\* C2: a shutdown() frame only ever moves from one step to the next one in
\* the order engine, tray, tk, exit, whether the step's call returned or
\* raised, and tries the step whenever its component is there; and once a
\* step has raised, the process still terminates.
C2_GuardedStepsInOrder ==
    /\ [][StepsInOrder]_vars
    /\ SomeStepRaised ~> exited

\* C2 witness: the shutdown() called by run()'s finally clause, the only one
\* on the main thread, has had all three steps raise, has tried all three
\* and has reached its end, and the process has terminated.
C2_Witness ==
    /\ exited
    /\ exitVia = "os._exit"
    /\ sigCount = 0
    /\ InShutdown("main")
    /\ Top("main").caller = "finally"
    /\ Top("main").pc = "sd_exit"
    /\ Top("main").tried = Steps
    /\ raised["main"] = Steps

\* A shutdown() frame stays on its stack, in shutdown(), under the same caller.
ShutdownStays ==
    \A t \in Threads : \A i \in ShutdownFrames(t) :
        /\ Len(stack'[t]) >= i
        /\ stack'[t][i].pc \in ShutdownPcs
        /\ stack'[t][i].caller = stack[t][i].caller
ShutdownCalled == \E t \in Threads : ShutdownFrames(t) # {}

\* C3: a shutdown() frame, once called, stays on its thread's stack (it
\* never returns to its caller), and every call of shutdown() is followed by
\* the end of the process.
C3_ShutdownEndsProcess ==
    /\ [][ShutdownStays]_vars
    /\ ShutdownCalled ~> exited

\* C3 witness: the process has ended with shutdown() called from run()'s
\* finally clause and from the tray's exit callback.
C3_Witness ==
    /\ exited
    /\ exitVia = "os._exit"
    /\ \E i \in ShutdownFrames("main") : stack["main"][i].caller = "finally"
    /\ \E i \in ShutdownFrames("tray") : stack["tray"][i].caller = "tray_exit"

\* C4: the running flag is written by one thread only, the engine's stop
\* operation is driven by one thread only, and shutdown() is executed by at
\* most one thread.
C4_NoSharedWriters ==
    /\ \A item \in SharedItems : Cardinality(accessedBy[item]) <= 1
    /\ Cardinality({t \in Threads : ShutdownFrames(t) # {}}) <= 1

\* C5: a query that reports the task absent makes Task(...) raise, and a
\* constructed Task has task_exists true.
C5_ConstructedTaskExists ==
    /\ (queryRc # 0 /\ construction # "none" =>
            ~task.constructed /\ construction = "ValueError")
    /\ (task.constructed => task.task_exists)

\* C6: on a Task whose task_exists is true, every set_enabled call issues
\* one command, does not raise, and returns True exactly when the command's
\* exit status is 0.
C6_SetEnabledReportsByValue ==
    task.constructed /\ task.task_exists =>
        \A i \in 1..Len(calls) :
            /\ calls[i].issued
            /\ calls[i].result \in {"True", "False"}
            /\ (calls[i].result = "True" <=> calls[i].rc = 0)

\* C7: config exists before the engine, the engine before the tray, wiring
\* is done once all three exist, the tray is started after the wiring and
\* before start_monitoring(), which the main thread calls; after a failed
\* initialization neither the tray nor the engine is started.
C7_StartupOrder ==
    /\ (engine # "None" => config # "None")
    /\ (tray # "None" => engine # "None")
    /\ (wired # {} => config # "None" /\ engine # "None" /\ tray # "None")
    /\ (trayStarted \/ trayState = "running" =>
            wired = {"engine_tray", "config_tray"})
    /\ (engineStartedBy # "none" \/ monitoring =>
            trayStarted /\ engineStartedBy = "main")
    /\ (Depth("tray") > 0 => trayStarted)
    /\ (initFailed => ~trayStarted /\ trayState # "running"
                      /\ engineStartedBy = "none" /\ ~monitoring)

\* C7 witness: the engine loop runs, started by the main thread, with the
\* tray running on its thread.
C7_Witness ==
    /\ At("main", "monitoring")
    /\ monitoring
    /\ engineStartedBy = "main"
    /\ trayState = "running"
    /\ At("tray", "tray_loop")

\* What holds in every state once a signal has been handled.
SignalSafety ==
    /\ (sigCount > 0 => InShutdown("main"))
    /\ (sigCount > 0 => \E i \in ShutdownFrames("main") :
                            stack["main"][i].caller = "signal")
    /\ (sigCount > 0 /\ exited => exitCode = 0 /\ exitVia = "os._exit")
    /\ \A t \in Threads : \A i \in ShutdownFrames(t) :
            \A s \in stack[t][i].tried : Component(s) # "None"

\* C8: once a signal has been handled the main thread is inside shutdown(),
\* no shutdown() tries to stop a component that is not constructed, the
\* process can only end with status 0 through os._exit, and it does end.
C8_SignalIsShutdown ==
    /\ []SignalSafety
    /\ (sigCount > 0) ~> (exited /\ exitCode = 0)

\* C8 witness: a signal arrived during initialization, between the engine's
\* and the tray's construction; only the engine was stopped; status 0.
C8_Witness ==
    /\ sigCount > 0
    /\ exited
    /\ exitCode = 0
    /\ engine = "obj"
    /\ tray = "None"
    /\ Top("main").caller = "signal"
    /\ Top("main").tried = {"engine"}

\* C9 as stated: every launch with --version constructs nothing, prints the
\* version and exits with status 0, with or without administrative rights.
C9_VersionAnyLaunch ==
    launch.version =>
        /\ NothingConstructed
        /\ (exited => versionPrinted /\ exitCode = 0)

\* C9 amended: a launch with --version constructs nothing; with
\* administrative rights it prints the version and exits with status 0;
\* without them it prints nothing and ends after requesting the relaunch.
C9_VersionWhenElevated ==
    launch.version =>
        /\ NothingConstructed
        /\ Depth("main") = 1 /\ Depth("tray") = 0
        /\ (exited /\ launch.admin => versionPrinted /\ exitCode = 0)
        /\ (~launch.admin => ~versionPrinted /\ ~argsParsed)
        /\ (exited /\ ~launch.admin => relaunchRequested)

\* C9 witness: an elevated launch with --version has printed and exited.
C9_Witness ==
    /\ launch.version
    /\ launch.admin
    /\ exited
    /\ versionPrinted
    /\ exitCode = 0

\* C10: without administrative rights the process only requests the
\* relaunch and ends: no arguments parsed, nothing constructed, no handler
\* installed, no shutdown(); main() is entered only with the rights.
C10_NonElevatedRunsNothing ==
    /\ (~launch.admin =>
            /\ Depth("main") = 1 /\ Depth("tray") = 0
            /\ Top("main").pc \in {"start", "relaunch"}
            /\ ~argsParsed
            /\ ~versionPrinted
            /\ NothingConstructed
            /\ ~ShutdownCalled
            /\ (exited <=> relaunchRequested)
            /\ (exited => exitVia \in {"end_of_script", "uncaught"}))
    /\ (launch.admin => ~relaunchRequested)

\* C10 witness: a launch without the rights has requested the relaunch and
\* ended.
C10_Witness ==
    /\ ~launch.admin
    /\ relaunchRequested
    /\ exited
    /\ exitVia = "end_of_script"
====
